---- MODULE Spec2Model ----
\* Deprovisioning endpoints of the demo platform server (server/src/index.ts):
\* DELETE /delete-vercel-deployments, /delete-demo-data and /delete-demo, with
\* the record store (Supabase table "demos"), the deploy host (Vercel REST API)
\* and the code host (GitHub REST API) as the environment.
EXTENDS Integers, Sequences, FiniteSets, TLC

\* ------------------------------------------------------------------------
\* Strings.  A string is a sequence of symbols; a symbol is one character
\* ("a", "-", ".", "/") or one fixed word of a URL ("https://", "vercel", ...).
\* A falsy string (null or '') is the empty sequence.
\* ------------------------------------------------------------------------
NULL == <<>>

\* String.prototype.includes
includes(s, t) ==
    \E i \in 0..(Len(s) - Len(t)) : SubSeq(s, i + 1, i + Len(t)) = t

\* Position of the first symbol of s at or after i that satisfies stop, or
\* Len(s) + 1 when there is none.
RECURSIVE FirstAt(_, _, _)
FirstAt(s, i, stopSet) ==
    IF i > Len(s) THEN Len(s) + 1
    ELSE IF s[i] \in stopSet THEN i
    ELSE FirstAt(s, i + 1, stopSet)

\* String.prototype.split('-'): the list of segments between the hyphens.
RECURSIVE split(_)
split(s) ==
    LET j == FirstAt(s, 1, {"-"})
    IN  IF j > Len(s) THEN <<s>>
        ELSE <<SubSeq(s, 1, j - 1)>> \o split(SubSeq(s, j + 1, Len(s)))

\* Array.prototype.join('-')
RECURSIVE join(_)
join(parts) ==
    IF parts = <<>> THEN <<>>
    ELSE IF Len(parts) = 1 THEN parts[1]
    ELSE parts[1] \o <<"-">> \o join(Tail(parts))

\* Array.prototype.slice(2, -2)
slice2(parts) == SubSeq(parts, 3, Len(parts) - 2)

VercelSuffix == <<".", "vercel", ".", "app">>
GitHubPrefix == <<"https://", "github", ".", "com", "/">>

\* url.match(/https:\/\/([^.]+)\.vercel\.app/): the match that starts at
\* position i, as the captured group, or NULL.  [^.]+ cannot cross a dot, so
\* the group runs up to the first dot after "https://".
VercelMatchAt(url, i) ==
    LET j == FirstAt(url, i + 1, {"."})
    IN  IF /\ url[i] = "https://"
           /\ j > i + 1
           /\ j + 3 <= Len(url)
           /\ SubSeq(url, j, j + 3) = VercelSuffix
        THEN SubSeq(url, i + 1, j - 1)
        ELSE NULL

\* extractProjectNameFromUrl: the group of the leftmost match, or NULL.
extractProjectNameFromUrl(url) ==
    LET hits == {i \in 1..Len(url) : VercelMatchAt(url, i) # NULL}
    IN  IF hits = {} THEN NULL
        ELSE VercelMatchAt(url, CHOOSE i \in hits : \A k \in hits : i <= k)

\* repoUrl.match(/https:\/\/github\.com\/([^\/]+)\/([^\/]+)/) at position i:
\* <<owner, repo>> or NULL.  "https://" contains slashes.
Slashy == {"/", "https://"}
GitHubMatchAt(url, i) ==
    LET o == i + Len(GitHubPrefix)
        j == FirstAt(url, o, Slashy)
        k == FirstAt(url, j + 1, Slashy)
    IN  IF /\ i + Len(GitHubPrefix) - 1 <= Len(url)
           /\ SubSeq(url, i, i + Len(GitHubPrefix) - 1) = GitHubPrefix
           /\ j > o
           /\ j <= Len(url)
           /\ url[j] = "/"
           /\ k > j + 1
        THEN <<SubSeq(url, o, j - 1), SubSeq(url, j + 1, k - 1)>>
        ELSE NULL

parseGitHubRepoUrl(url) ==
    LET hits == {i \in 1..Len(url) : GitHubMatchAt(url, i) # NULL}
    IN  IF hits = {} THEN NULL
        ELSE GitHubMatchAt(url, CHOOSE i \in hits : \A k \in hits : i <= k)

\* ------------------------------------------------------------------------
\* The world: names, URLs and Demo Records.
\* ------------------------------------------------------------------------
MaxFaults == 2      \* failures injected into provider / store calls per run

Slots   == {"r1", "r2"}            \* requests that can be in flight at once
DemoIds == {"d1", "d2"}            \* ids of rows of table demos
NoId    == "none"                  \* the demoId query parameter is missing

SlugA  == <<"a">>                  \* slugify(customerName) of one customer
SlugAB == <<"a", "b">>             \* ... and of another whose name contains it

\* `segment-demo-${slug}-${role}`
ProjName(slug, role) == <<"segment", "-", "demo", "-">> \o slug \o <<"-", role>>
\* a deployment suffix as the deploy host (or a placeholder) appends it
Suffixed(name) == name \o <<"-", "k7">>
VercelUrl(name) == <<"https://">> \o name \o VercelSuffix
GitHubUrl(owner, repo) == GitHubPrefix \o owner \o <<"/">> \o repo
Owner == <<"u">>
RepoName(slug) == <<"segment", "-", "demo", "-">> \o slug

Rec(f, b, g) == [frontend_url |-> f, backend_url |-> b, github_repo_url |-> g]
NoDemo == Rec(NULL, NULL, NULL)

\* Rows that table demos can hold for a customer: all three URLs set, only a
\* (suffixed) frontend URL, or no result field at all (the URL columns are
\* nullable, supabase-schema.sql).
RowsOf(slug) ==
    { Rec(VercelUrl(ProjName(slug, "frontend")), VercelUrl(ProjName(slug, "backend")),
          GitHubUrl(Owner, RepoName(slug))),
      Rec(VercelUrl(Suffixed(ProjName(slug, "frontend"))), NULL, NULL),
      NoDemo }

Scopes == {"team", "personal"}
Proj(name, scope) == [name |-> name, scope |-> scope]

VARIABLES
    demos,        \* table demos: a function from the ids of its rows to the rows
    projects,     \* the projects on the deploy host, each in one scope
    repos,        \* the repositories on the code host, as <<owner, repo>>
    vercelToken,  \* process.env.VERCEL_TOKEN is set
    teamId,       \* process.env.VERCEL_TEAM_ID is set
    req,          \* per slot: the request in flight or last answered
    faults,       \* failures injected so far
    openaiKey,    \* process.env.OPENAI_API_KEY is set
    gen,          \* per slot: the /generate-demo request in flight or last answered
    dirs,         \* the /tmp/demo-{uuid} directories on disk
    uuids,        \* uuidv4() values drawn so far
    deletingDemo,    \* DemoList state: the demo whose Delete All is shown as running
    deletingVercel,  \* ... whose Delete Deployments is shown as running
    deletingData,    \* ... whose Delete Data is shown as running
    pending       \* the deletion requests the page has started and not seen end

provVars == <<openaiKey, gen, dirs, uuids>>
pageVars == <<deletingDemo, deletingVercel, deletingData, pending>>
vars == <<demos, projects, repos, vercelToken, teamId, req, faults, provVars, pageVars>>

\* One call to a collaborator: arg is the name the caller asked for, tgt the
\* resource the call acted on.
Call(op, arg, tgt, ok) == [op |-> op, arg |-> arg, tgt |-> tgt, ok |-> ok]
\* a delete request, with the endpoint it is sent to (lines 607-609, 639-641)
CallAt(op, arg, tgt, ok, scope) ==
    [op |-> op, arg |-> arg, tgt |-> tgt, ok |-> ok, scope |-> scope]

Idle == [pc |-> "idle", kind |-> "none", demoId |-> NoId, token |-> FALSE,
         demo |-> NoDemo, lookup |-> "none", calls |-> <<>>, status |-> 0,
         prev |-> 0, inj |-> 0, route |-> "server",
         endpointUsed |-> "", listed |-> {}, projectCount |-> 0]

\* ------------------------------------------------------------------------
\* deleteVercelProject(projectName, token)
\* ------------------------------------------------------------------------
\* The listing a scope's endpoint returns.
Listing(projs, scope) == {p \in projs : p.scope = scope}

\* The three lookup passes over a listing; find() returns the first entry of
\* the listing that satisfies the pass, and the order of a listing is the
\* provider's, so any entry that satisfies the pass can be the one found.
ExactMatches(list, projectName) == {p \in list : p.name = projectName}
PartialMatches(list, projectName) ==
    {p \in list : includes(p.name, projectName) \/ includes(projectName, p.name)}
customerNameOf(projectName) == join(slice2(split(projectName)))
CustomerMatches(list, projectName) ==
    IF customerNameOf(projectName) = NULL THEN {}
    ELSE {p \in list : includes(p.name, customerNameOf(projectName))}

\* (mutation) the substring pass tried before the exact pass
Found_PartialFirst(list, projectName) ==
    IF PartialMatches(list, projectName) # {} THEN PartialMatches(list, projectName)
    ELSE CustomerMatches(list, projectName)

Found(list, projectName) ==
    IF ExactMatches(list, projectName) # {} THEN ExactMatches(list, projectName)
    ELSE IF PartialMatches(list, projectName) # {} THEN PartialMatches(list, projectName)
    ELSE CustomerMatches(list, projectName)

\* (mutation) the personal listing requested whatever the team listing held
NeedPersonal_Always(teamList) == TRUE

\* line 551, if (projects.length === 0): the personal listing is requested
\* when the team listing was not made, failed or came back empty.
NeedPersonal(teamList) == teamList = {}

\* (mutation) endpointType not set back by the personal listing (line 390)
EndpointType_TeamKept(needPers) == "team"

\* endpointType, lines 524, 544 and 390: 'team' once the team listing is
\* answered 2xx, 'personal' once the personal listing is; the function goes on
\* past the listings with the personal listing answered or not needed.
EndpointType(needPers) == IF needPers THEN "personal" ELSE "team"

\* (mutation) the last-resort delete letting its failure out
LastResort_Throws(projectName, projs, lists, endpointType, nFaults, delOk) ==
    LET byName == {p \in projs : p.name = projectName /\ p.scope = endpointType}
        ok     == delOk /\ byName # {}
    IN  { [projects |-> IF delOk THEN projs \ byName ELSE projs,
           calls |-> lists \o <<CallAt("vercel.deleteByName", projectName, projectName, ok,
                                       endpointType)>>,
           threw |-> ~ok,
           faults |-> nFaults + (IF ~delOk /\ byName # {} THEN 1 ELSE 0)] }

\* lines 600-634, if (!project): DELETE .../projects/${projectName} on the
\* endpoint in use; a non-2xx answer and a thrown error are logged, and the
\* function returns.
LastResort(projectName, projs, lists, endpointType, nFaults, delOk) ==
    LET byName == {p \in projs : p.name = projectName /\ p.scope = endpointType}
    IN  { [projects |-> IF delOk THEN projs \ byName ELSE projs,
           calls |-> lists \o <<CallAt("vercel.deleteByName", projectName, projectName,
                                       delOk /\ byName # {}, endpointType)>>,
           threw |-> FALSE,
           faults |-> nFaults + (IF ~delOk /\ byName # {} THEN 1 ELSE 0)] }

\* The outcomes of one call of deleteVercelProject in deploy-host state projs:
\* the state it leaves, the calls it made, whether it threw, and how many of
\* its calls were made to fail.  teamOk, persOk and delOk say whether the team
\* listing, the personal listing and the delete request are answered 2xx.
\* The listing and the delete are taken in one step: a project that another
\* request removes in between makes the delete answer non-2xx, which is the
\* outcome delOk = FALSE.  A listing holds every project of its scope.
deleteVercelProjectWith(projectName, projs, hasTeam, teamOk, persOk, delOk) ==
    LET teamCalls == IF hasTeam THEN <<Call("vercel.list.team", projectName, NULL, teamOk)>> ELSE <<>>
        teamList  == IF hasTeam /\ teamOk THEN Listing(projs, "team") ELSE {}
        needPers  == NeedPersonal(teamList)
        persCalls == IF needPers THEN <<Call("vercel.list.personal", projectName, NULL, persOk)>> ELSE <<>>
        list      == IF needPers THEN (IF persOk THEN Listing(projs, "personal") ELSE {})
                     ELSE teamList
        endpointType == EndpointType(needPers)
        nFaults   == (IF hasTeam /\ ~teamOk THEN 1 ELSE 0)
                     + (IF needPers /\ ~persOk THEN 1 ELSE 0)
        lists     == teamCalls \o persCalls
    IN  IF needPers /\ ~persOk
        THEN { [projects |-> projs, calls |-> lists, threw |-> TRUE, faults |-> nFaults] }
        ELSE IF Found(list, projectName) = {}
        THEN LastResort(projectName, projs, lists, endpointType, nFaults, delOk)
        ELSE { [projects |-> IF delOk THEN projs \ {p} ELSE projs,
                calls |-> lists \o <<CallAt("vercel.delete", projectName, p.name, delOk,
                                            endpointType)>>,
                threw |-> ~delOk,
                faults |-> nFaults + (IF ~delOk THEN 1 ELSE 0)]
               : p \in Found(list, projectName) }

deleteVercelProject(projectName, projs, hasTeam) ==
    UNION { deleteVercelProjectWith(projectName, projs, hasTeam, teamOk, persOk, delOk)
            : teamOk \in BOOLEAN, persOk \in BOOLEAN, delOk \in BOOLEAN }

\* ------------------------------------------------------------------------
\* deleteVercelDeployments(demo)
\* ------------------------------------------------------------------------
Quiet(projs) == [projects |-> projs, calls |-> <<>>, threw |-> FALSE, faults |-> 0]

\* What follows a call of deleteVercelProject for the frontend that left f:
\* an exception leaves the try block, so the backend project is reached only
\* when the frontend call returned.
ThenBackend(f, backendProject, hasTeam) ==
    IF f.threw \/ backendProject = NULL THEN {f}
    ELSE { [projects |-> b.projects, calls |-> f.calls \o b.calls,
            threw |-> b.threw, faults |-> f.faults + b.faults]
           : b \in deleteVercelProject(backendProject, f.projects, hasTeam) }

deleteVercelDeployments(demo, projs, hasToken, hasTeam) ==
    LET frontendProject == IF demo.frontend_url # NULL
                           THEN extractProjectNameFromUrl(demo.frontend_url) ELSE NULL
        backendProject  == IF demo.backend_url # NULL
                           THEN extractProjectNameFromUrl(demo.backend_url) ELSE NULL
        fOuts == IF frontendProject # NULL
                 THEN deleteVercelProject(frontendProject, projs, hasTeam)
                 ELSE {Quiet(projs)}
    IN  IF ~hasToken THEN {Quiet(projs)}
        ELSE UNION { ThenBackend(f, backendProject, hasTeam) : f \in fOuts }

\* ------------------------------------------------------------------------
\* deleteGitHubRepo(repoUrl, githubToken)
\* ------------------------------------------------------------------------
deleteGitHubRepo(repoUrl, rs) ==
    LET m == parseGitHubRepoUrl(repoUrl)
    IN  IF m = NULL
        THEN { [repos |-> rs, calls |-> <<>>, threw |-> TRUE, faults |-> 0] }
        ELSE { [repos |-> rs, calls |-> <<Call("github.delete", m[2], NULL, FALSE)>>,
                threw |-> TRUE, faults |-> IF m \in rs THEN 1 ELSE 0] }
             \cup
             ( IF m \in rs
               THEN { [repos |-> rs \ {m},
                       calls |-> <<Call("github.delete", m[2], m[2], TRUE)>>,
                       threw |-> FALSE, faults |-> 0] }
               ELSE {} )

\* ------------------------------------------------------------------------
\* The record store
\* ------------------------------------------------------------------------
\* supabase.from('demos').select('*').eq('id', demoId).single(): "found" with
\* the row, "absent" (zero rows is an error of single()), or "error" when the
\* store fails.
fetchDemo(store, demoId) ==
    { [lookup |-> "error", demo |-> NoDemo, faults |-> 1] }
    \cup
    ( IF demoId \in DOMAIN store
      THEN { [lookup |-> "found", demo |-> store[demoId], faults |-> 0] }
      ELSE { [lookup |-> "absent", demo |-> NoDemo, faults |-> 0] } )

\* (mutation) if (fetchError) only: a missing row is not noticed
LookupStatus_ErrorOnly(lookup) == IF lookup = "error" THEN 404 ELSE 0

\* if (fetchError || !demo) return res.status(404); 0 is "go on".
LookupStatus(lookup) == IF lookup = "found" THEN 0 ELSE 404

\* (mutation) the delete leaves the row in place
deleteRow_Keep(store, demoId) == store

\* (mutation) a delete without the .eq('id', demoId) filter
deleteRow_All(store, demoId) == [d \in {} |-> NoDemo]

\* supabase.from('demos').delete().eq('id', demoId)
deleteRow(store, demoId) == [d \in DOMAIN store \ {demoId} |-> store[d]]

\* ------------------------------------------------------------------------
\* The handlers.  Each runs its stages in the order of its statements; a
\* request is suspended between stages (every stage awaits a collaborator), so
\* stages of different requests interleave.
\* ------------------------------------------------------------------------
DeleteVercelStages == <<"vercel">>                   \* /delete-vercel-deployments
DeleteDataStages   == <<"github", "db">>             \* /delete-demo-data
\* (mutation) /delete-demo deleting the row before anything else
DeleteDemoStages_DbFirst == <<"db", "vercel", "github">>
\* (mutation) /delete-demo deleting the repository before the deployments
DeleteDemoStages_RepoFirst == <<"github", "vercel", "db">>
DeleteDemoStages   == <<"vercel", "github", "db">>   \* /delete-demo

StagesOf(kind) ==
    IF kind = "delete-vercel-deployments" THEN DeleteVercelStages
    ELSE IF kind = "delete-demo-data" THEN DeleteDataStages
    ELSE DeleteDemoStages

\* The stage after pc in the handler, "done" after the last.
After(kind, pc) ==
    LET st == StagesOf(kind)
        i  == CHOOSE k \in 1..Len(st) : st[k] = pc
    IN  IF i = Len(st) THEN "done" ELSE st[i + 1]

Free(r) == req[r].pc \in {"idle", "done"}
At(r, kind, pc) == req[r].kind = kind /\ req[r].pc = pc
Budget(n) == faults + n <= MaxFaults

Answer(q, status) == [q EXCEPT !.pc = "done", !.status = status]

\* The request a slot starts.  prev is the status of the request the slot
\* answered just before, when that was the same request (0 otherwise).
FreshVia(r, kind, demoId, token, route) ==
    [Idle EXCEPT !.kind = kind, !.demoId = demoId, !.token = token, !.route = route,
                 !.prev = IF /\ req[r].pc = "done"
                             /\ req[r].kind = kind
                             /\ req[r].demoId = demoId
                             /\ req[r].token = token
                             /\ req[r].route = route
                          THEN req[r].status ELSE 0]

\* ... sent to the server itself.
Fresh(r, kind, demoId, token) == FreshVia(r, kind, demoId, token, "server")

\* The first part of a handler, up to the answer of the lookup: validation
\* (valid), then the lookup by id.
BeginVia(r, kind, demoId, token, valid, route) ==
    /\ Free(r)
    /\ LET q == FreshVia(r, kind, demoId, token, route)
       IN  IF ~valid
           THEN /\ req' = [req EXCEPT ![r] = Answer(q, 400)]
                /\ UNCHANGED faults
           ELSE \E f \in fetchDemo(demos, demoId) :
                  /\ Budget(f.faults)
                  /\ faults' = faults + f.faults
                  /\ req' = [req EXCEPT ![r] =
                        [q EXCEPT !.lookup = f.lookup,
                                  !.demo = f.demo,
                                  !.calls = <<Call("db.select", NULL, NULL, f.lookup # "error")>>,
                                  !.inj = f.faults,
                                  !.status = LookupStatus(f.lookup),
                                  !.pc = IF LookupStatus(f.lookup) = 0
                                         THEN StagesOf(kind)[1] ELSE "done"]]
    /\ UNCHANGED <<demos, projects, repos, vercelToken, teamId, provVars, pageVars>>

\* A request sent to the server itself.
Begin(r, kind, demoId, token, valid) == BeginVia(r, kind, demoId, token, valid, "server")

\* The request after a collaborator's calls o.calls were made for it.
Logged(q, o) == [q EXCEPT !.calls = q.calls \o o.calls, !.inj = q.inj + o.faults]

\* (mutation) the inner catch of /delete-vercel-deployments swallowing the throw
VercelOnlyAnswer_AlwaysOk(q, o) == Answer(Logged(q, o), 200)
\* (mutation) ... or answering 500 for any failed deploy-host call
VercelOnlyAnswer_Strict(q, o) ==
    Answer(Logged(q, o),
           IF o.threw \/ \E i \in DOMAIN o.calls : ~o.calls[i].ok THEN 500 ELSE 200)

\* app.delete('/delete-vercel-deployments'), lines 171-181: a throw of
\* deleteVercelDeployments is answered 500.
VercelOnlyAnswer(q, o) == Answer(Logged(q, o), IF o.threw THEN 500 ELSE 200)

\* app.delete('/delete-vercel-deployments'), lines 141-164
DeleteVercelDeployments_Begin(r, demoId) ==
    Begin(r, "delete-vercel-deployments", demoId, FALSE, demoId # NoId)

\* (mutation) a record without deployment URLs refused
NoDeploymentsAnswer_Refused(q) == Answer(q, 404)

\* app.delete('/delete-vercel-deployments'), lines 182-185: neither URL set,
\* 'No Vercel deployments found' with success: true.
NoDeploymentsAnswer(q) == Answer(q, 200)

\* app.delete('/delete-vercel-deployments'), lines 166-185
DeleteVercelDeployments_Vercel(r) ==
    /\ At(r, "delete-vercel-deployments", "vercel")
    /\ LET q == req[r] IN
       IF q.demo.frontend_url # NULL \/ q.demo.backend_url # NULL
       THEN \E o \in deleteVercelDeployments(q.demo, projects, vercelToken, teamId) :
              /\ Budget(o.faults)
              /\ faults' = faults + o.faults
              /\ projects' = o.projects
              /\ req' = [req EXCEPT ![r] = VercelOnlyAnswer(q, o)]
       ELSE /\ req' = [req EXCEPT ![r] = NoDeploymentsAnswer(q)]
            /\ UNCHANGED <<projects, faults>>
    /\ UNCHANGED <<demos, repos, vercelToken, teamId, provVars, pageVars>>

\* (mutation) /delete-demo without the inner try/catch around the deployments
VercelCaught_Abort(q, o) ==
    IF o.threw THEN Answer(Logged(q, o), 500)
    ELSE [Logged(q, o) EXCEPT !.pc = After(q.kind, "vercel")]

\* /delete-demo, lines 289-295: a throw of deleteVercelDeployments is logged
\* and the handler goes on.
VercelCaught(q, o) == [Logged(q, o) EXCEPT !.pc = After(q.kind, "vercel")]

\* The deploy-host part of /delete-demo, lines 284-298.
VercelStage(r, kind) ==
    /\ At(r, kind, "vercel")
    /\ LET q == req[r] IN
       IF q.demo.frontend_url # NULL \/ q.demo.backend_url # NULL
       THEN \E o \in deleteVercelDeployments(q.demo, projects, vercelToken, teamId) :
              /\ Budget(o.faults)
              /\ faults' = faults + o.faults
              /\ projects' = o.projects
              /\ req' = [req EXCEPT ![r] = VercelCaught(q, o)]
       ELSE /\ req' = [req EXCEPT ![r] = [q EXCEPT !.pc = After(kind, "vercel")]]
            /\ UNCHANGED <<projects, faults>>
    /\ UNCHANGED <<demos, repos, vercelToken, teamId, provVars, pageVars>>

\* (mutation) no inner try/catch around deleteGitHubRepo
GitHubCaught_Abort(q, o) ==
    IF o.threw THEN Answer(Logged(q, o), 500)
    ELSE [Logged(q, o) EXCEPT !.pc = After(q.kind, "github")]

\* /delete-demo-data 226-232 and /delete-demo 304-310: a throw of
\* deleteGitHubRepo is logged and the handler goes on.
GitHubCaught(q, o) == [Logged(q, o) EXCEPT !.pc = After(q.kind, "github")]

\* The code-host part of /delete-demo-data (222-235) and /delete-demo
\* (300-313).
GitHubStage(r, kind) ==
    /\ At(r, kind, "github")
    /\ LET q == req[r] IN
       IF q.demo.github_repo_url # NULL /\ q.token
       THEN \E o \in deleteGitHubRepo(q.demo.github_repo_url, repos) :
              /\ Budget(o.faults)
              /\ faults' = faults + o.faults
              /\ repos' = o.repos
              /\ req' = [req EXCEPT ![r] = GitHubCaught(q, o)]
       ELSE /\ req' = [req EXCEPT ![r] = [q EXCEPT !.pc = After(kind, "github")]]
            /\ UNCHANGED <<repos, faults>>
    /\ UNCHANGED <<demos, projects, vercelToken, teamId, provVars, pageVars>>

\* (mutation) deleteError ignored
DbDeleteStatus_AlwaysOk(ok) == 200

\* if (deleteError) throw deleteError -> catch -> 500; else 200.
DbDeleteStatus(ok) == IF ok THEN 200 ELSE 500

\* The record-store part of /delete-demo-data (237-255) and /delete-demo
\* (315-333).
DbDeleteStage(r, kind) ==
    /\ At(r, kind, "db")
    /\ \E ok \in BOOLEAN :
         LET o == [calls |-> <<Call("db.delete", NULL, NULL, ok)>>,
                   faults |-> IF ok THEN 0 ELSE 1]
         IN  /\ Budget(o.faults)
             /\ faults' = faults + o.faults
             /\ demos' = IF ok THEN deleteRow(demos, req[r].demoId) ELSE demos
             /\ req' = [req EXCEPT ![r] = Answer(Logged(req[r], o), DbDeleteStatus(ok))]
    /\ UNCHANGED <<projects, repos, vercelToken, teamId, provVars, pageVars>>

\* app.delete('/delete-demo-data')
DeleteDemoData_Begin(r, demoId, token) ==
    Begin(r, "delete-demo-data", demoId, token, demoId # NoId)
DeleteDemoData_GitHub(r) == GitHubStage(r, "delete-demo-data")
DeleteDemoData_Db(r)     == DbDeleteStage(r, "delete-demo-data")

\* app.delete('/delete-demo')
DeleteDemo_Begin(r, demoId, token) ==
    Begin(r, "delete-demo", demoId, token, demoId # NoId /\ token)
DeleteDemo_Vercel(r) == VercelStage(r, "delete-demo")
DeleteDemo_GitHub(r) == GitHubStage(r, "delete-demo")
DeleteDemo_Db(r)     == DbDeleteStage(r, "delete-demo")

\* ------------------------------------------------------------------------
\* Initial states: the rows, projects and repositories that exist when the
\* server starts, and its environment.
\* ------------------------------------------------------------------------
ProjectPool == { ProjName(SlugA, "frontend"), ProjName(SlugA, "backend"),
                 ProjName(SlugAB, "frontend") }
RepoPool == { <<Owner, RepoName(SlugA)>>, <<Owner, RepoName(SlugAB)>> }
FullRow(slug) ==
    Rec(VercelUrl(ProjName(slug, "frontend")), VercelUrl(ProjName(slug, "backend")),
        GitHubUrl(Owner, RepoName(slug)))

\* process.env: VERCEL_TEAM_ID is read only where VERCEL_TOKEN is set.
Envs == { <<TRUE, TRUE>>, <<TRUE, FALSE>>, <<FALSE, FALSE>> }

\* The page is not open: useState(null) three times, nothing started.
NoPage ==
    /\ deletingDemo = NoId
    /\ deletingVercel = NoId
    /\ deletingData = NoId
    /\ pending = <<>>

\* No /generate-demo request is made: the rows are the ones found.
NoProvisioning ==
    /\ openaiKey = FALSE
    /\ gen = [g \in {} |-> 0]
    /\ dirs = {}
    /\ uuids = 0

\* One request at a time, in the worlds of the pools: the rows of one or two
\* customers, each project in a scope or gone, the repositories there or gone.
InitSerial ==
    /\ \E r1 \in RowsOf(SlugA), ids \in {{"d1"}, DemoIds} :
         demos = [d \in ids |-> IF d = "d1" THEN r1 ELSE FullRow(SlugAB)]
    /\ \E where \in [ProjectPool -> Scopes \cup {"gone"}] :
         /\ where[ProjName(SlugAB, "frontend")] # "team"
         /\ projects = { Proj(n, where[n]) : n \in {m \in ProjectPool : where[m] # "gone"} }
    /\ repos \in {RepoPool, {}}
    /\ \E e \in Envs : vercelToken = e[1] /\ teamId = e[2]
    /\ req = [r \in {"r1"} |-> Idle]
    /\ faults = 0
    /\ NoProvisioning
    /\ NoPage

\* Two requests in flight, in the world of one demo whose frontend project and
\* repository exist.
InitConcurrent ==
    /\ demos = [d \in {"d1"} |->
                  Rec(VercelUrl(ProjName(SlugA, "frontend")), NULL,
                      GitHubUrl(Owner, RepoName(SlugA)))]
    /\ projects = { Proj(ProjName(SlugA, "frontend"), "team") }
    /\ repos = { <<Owner, RepoName(SlugA)>> }
    /\ vercelToken = TRUE
    /\ teamId = TRUE
    /\ req = [r \in Slots |-> Idle]
    /\ faults = 0
    /\ NoProvisioning
    /\ NoPage

Init == InitSerial \/ InitConcurrent

Next ==
    \E r \in DOMAIN req :
      \/ \E d \in DemoIds \cup {NoId} : DeleteVercelDeployments_Begin(r, d)
      \/ DeleteVercelDeployments_Vercel(r)
      \/ \E d \in DemoIds \cup {NoId}, t \in BOOLEAN : DeleteDemoData_Begin(r, d, t)
      \/ DeleteDemoData_GitHub(r)
      \/ DeleteDemoData_Db(r)
      \/ \E d \in DemoIds \cup {NoId}, t \in BOOLEAN : DeleteDemo_Begin(r, d, t)
      \/ DeleteDemo_Vercel(r)
      \/ DeleteDemo_GitHub(r)
      \/ DeleteDemo_Db(r)

Spec == Init /\ [][Next]_vars

\* ------------------------------------------------------------------------
\* Provisioning: the names generateDemo derives from the display name
\* ------------------------------------------------------------------------
toLowerCase(s) == [i \in DOMAIN s |-> IF s[i] = "A" THEN "a" ELSE s[i]]

\* replace(/c+/g, c) and no c at the end
RECURSIVE Collapse(_, _)
Collapse(s, c) ==
    IF s = <<>> THEN <<>>
    ELSE IF Head(s) = c /\ (Len(s) = 1 \/ s[2] = c) THEN Collapse(Tail(s), c)
    ELSE <<Head(s)>> \o Collapse(Tail(s), c)

\* ... and none at the start
Trimmed(s, c) ==
    LET t == Collapse(s, c)
    IN  IF t # <<>> /\ Head(t) = c THEN Tail(t) ELSE t

\* slugify(customerName): trimmed, every run of white space one "-"
slugify(name) ==
    LET t == Trimmed(name, " ")
    IN  [i \in DOMAIN t |-> IF t[i] = " " THEN "-" ELSE t[i]]

Slug(customerName) == toLowerCase(slugify(customerName))

\* the number of characters of a symbol
Width(c) ==
    CASE c \in {"frontend", "https://"} -> 8
      [] c \in {"segment", "backend"} -> 7
      [] c \in {"vercel", "github"} -> 6
      [] c = "demo" -> 4
      [] c \in {"app", "com"} -> 3
      [] c \in {"k7", "t1"} -> 2
      [] OTHER -> 1

ProjectNameLimit == 50

\* s.substring(0, n), to the last whole symbol
RECURSIVE substring(_, _)
substring(s, n) ==
    IF s = <<>> \/ Width(Head(s)) > n THEN <<>>
    ELSE <<Head(s)>> \o substring(Tail(s), n - Width(Head(s)))

\* deployToVercel 1188-1193
cleanProjectName(projectName) ==
    LET lower == toLowerCase(projectName)
        dashed == [i \in DOMAIN lower |-> IF lower[i] = " " THEN "-" ELSE lower[i]]
    IN  substring(Trimmed(dashed, "-"), ProjectNameLimit)

\* githubRepoUrl of the catch at 130-133
PlaceholderRepoUrl ==
    GitHubPrefix \o <<"your", "-", "username", "/", "segment", "-", "demo", "-", "placeholder">>

\* `https://${projectName}-${deploymentId}.vercel.app`
PlaceholderUrl(projectName) == VercelUrl(Suffixed(projectName))

\* ------------------------------------------------------------------------
\* Provisioning: the collaborators.  Each operator is the set of outcomes of
\* one call: the provider afterwards, the value returned, the calls made,
\* whether it threw and the failures injected.
\* ------------------------------------------------------------------------
\* createGitHubRepo: the code host refuses a name the owner already has.
createGitHubRepo(customerName, rs) ==
    LET repoName == RepoName(Slug(customerName))
        taken == <<Owner, repoName>> \in rs
    IN  { [repos |-> rs, url |-> NULL,
           calls |-> <<Call("github.create", repoName, NULL, FALSE)>>,
           threw |-> TRUE, faults |-> IF taken THEN 0 ELSE 1] }
        \cup
        ( IF taken THEN {}
          ELSE { [repos |-> rs \cup {<<Owner, repoName>>},
                  url |-> GitHubUrl(Owner, repoName),
                  calls |-> <<Call("github.create", repoName, repoName, TRUE)>>,
                  threw |-> FALSE, faults |-> 0] } )

\* initializeGitAndPush: one of the git commands exits non-zero, or none does.
initializeGitAndPush(githubRepoUrl) ==
    { [calls |-> <<Call("git.push", githubRepoUrl, githubRepoUrl, TRUE)>>,
       threw |-> FALSE, faults |-> 0],
      [calls |-> <<Call("git.push", githubRepoUrl, NULL, FALSE)>>,
       threw |-> TRUE, faults |-> 1] }

\* (mutation) deployToVercel without the placeholder fallback
deployToVercel_NoFallback(projectName, projs, hasToken, hasTeam) ==
    LET clean == cleanProjectName(projectName)
    IN  IF ~hasToken
        THEN { [projects |-> projs, url |-> NULL, calls |-> <<>>, faults |-> 0] }
        ELSE { [projects |-> projs \cup {Proj(clean, IF hasTeam THEN "team" ELSE "personal")},
                url |-> VercelUrl(clean),
                calls |-> <<Call("vercel.deploy", clean, clean, TRUE)>>, faults |-> 0],
               [projects |-> projs, url |-> NULL,
                calls |-> <<Call("vercel.deploy", clean, NULL, FALSE)>>, faults |-> 1] }

\* deployToVercel: without VERCEL_TOKEN a placeholder and no call; else the
\* CLI deploys the project and prints its URL (the alias or the deployment
\* URL), or exits non-zero, or exits zero with no URL in its output; each
\* failure is caught (1230-1235) and answered with a placeholder.
deployToVercel(projectName, projs, hasToken, hasTeam) ==
    LET clean == cleanProjectName(projectName)
        made  == projs \cup {Proj(clean, IF hasTeam THEN "team" ELSE "personal")}
    IN  IF ~hasToken
        THEN { [projects |-> projs, url |-> PlaceholderUrl(projectName),
                calls |-> <<>>, faults |-> 0] }
        ELSE { [projects |-> made, url |-> u,
                calls |-> <<Call("vercel.deploy", clean, clean, TRUE)>>, faults |-> 0]
               : u \in {VercelUrl(clean), VercelUrl(Suffixed(clean))} }
             \cup
             { [projects |-> projs, url |-> PlaceholderUrl(projectName),
                calls |-> <<Call("vercel.deploy", clean, NULL, FALSE)>>, faults |-> 1],
               [projects |-> made, url |-> PlaceholderUrl(projectName),
                calls |-> <<Call("vercel.deploy", clean, clean, FALSE)>>, faults |-> 1] }

\* ------------------------------------------------------------------------
\* Provisioning: app.post('/generate-demo') and generateDemo, one action per
\* stage.  result holds frontendUrl, backendUrl and githubRepoUrl of
\* generateDemo ('' until assigned); error is set once generateDemo has thrown.
\* ------------------------------------------------------------------------
\* the /generate-demo requests made, in the order of their arrival
GenSlots == {"g1", "g2"}
Names == { <<"a">>, <<"a", " ", "b">> }
Users == {"u1", "u2"}
RowIds == <<"d1", "d2">>

GenIdle == [pc |-> "idle", customerName |-> NULL, userId |-> NoId, dir |-> 0,
            result |-> NoDemo, error |-> FALSE, calls |-> <<>>, inj |-> 0,
            status |-> 0, data |-> NoDemo, row |-> NoId]

GenFree(g) ==
    /\ gen[g].pc = "idle"
    /\ g = "g2" => gen["g1"].pc # "idle"
GenAt(g, pc) == gen[g].pc = pc

\* One collaborator call of a fatal stage: ok, or failed by itself (natural)
\* or by injection.
Attempts(op, natural) ==
    IF natural THEN { [calls |-> <<Call(op, NULL, NULL, FALSE)>>, threw |-> TRUE, faults |-> 0] }
    ELSE { [calls |-> <<Call(op, NULL, NULL, TRUE)>>, threw |-> FALSE, faults |-> 0],
           [calls |-> <<Call(op, NULL, NULL, FALSE)>>, threw |-> TRUE, faults |-> 1] }

\* (mutation) generateDemo without its catch { throw error }: a throw is lost
Thrown_Swallowed(q, o, next) == [Logged(q, o) EXCEPT !.pc = next]

\* generateDemo 155-165: a throw inside the outer try goes to the finally
\* block and then to the caller; otherwise the run goes on with next.
Thrown(q, o, next) ==
    IF o.threw
    THEN [Logged(q, o) EXCEPT !.error = TRUE, !.pc = "cleanup"]
    ELSE [Logged(q, o) EXCEPT !.pc = next]

\* (mutation) only the display name checked
MissingRequired_NameOnly(customerName, others, userId) == customerName = NULL

\* index.ts 61-65
MissingRequired(customerName, others, userId) ==
    customerName = NULL \/ ~others \/ userId = NoId

\* app.post('/generate-demo') 43-79 and generateDemo 102-116: validation,
\* then the run's directory.
GenerateDemo_Begin(g, customerName, others, userId) ==
    /\ GenFree(g)
    /\ LET q == [GenIdle EXCEPT !.customerName = customerName, !.userId = userId]
       IN  IF MissingRequired(customerName, others, userId)
           THEN /\ gen' = [gen EXCEPT ![g] = [GenIdle EXCEPT !.pc = "done", !.status = 400]]
                /\ UNCHANGED <<dirs, uuids, faults>>
           ELSE /\ uuids' = uuids + 1
                /\ \E o \in Attempts("fs.mkdir", FALSE) :
                     /\ Budget(o.faults)
                     /\ faults' = faults + o.faults
                     /\ dirs' = IF o.threw THEN dirs ELSE dirs \cup {uuids'}
                     /\ gen' = [gen EXCEPT ![g] =
                           Thrown([q EXCEPT !.dir = uuids'], o, "frontend")]
    /\ UNCHANGED <<demos, projects, repos, vercelToken, teamId, req, openaiKey, pageVars>>

\* A code-generation stage: the completion request (getOpenAIClient throws
\* without OPENAI_API_KEY), then the files written under the run's directory.
\* fetchRepositoryContext before the request answers a string whether or not
\* its reads of the inspiration repository fail, and changes nothing.
CodeStage(g, pc, llm, write, next) ==
    /\ GenAt(g, pc)
    /\ \E o \in Attempts(llm, ~openaiKey) :
         \E w \in IF o.threw THEN {[calls |-> <<>>, threw |-> TRUE, faults |-> 0]}
                  ELSE Attempts(write, FALSE) :
           /\ Budget(o.faults + w.faults)
           /\ faults' = faults + o.faults + w.faults
           /\ gen' = [gen EXCEPT ![g] = Thrown(Logged(gen[g], o), w, next)]
    /\ UNCHANGED <<demos, projects, repos, vercelToken, teamId, req, openaiKey, dirs, uuids, pageVars>>

\* generateDemo 118-119
GenerateDemo_Frontend(g) ==
    CodeStage(g, "frontend", "llm.frontend", "fs.write.frontend", "backend")

\* generateDemo 122-123
GenerateDemo_Backend(g) ==
    CodeStage(g, "backend", "llm.backend", "fs.write.backend", "repo")

\* (mutation) no try/catch around the repository stage
RepoCaught_Abort(q, url, threw) ==
    IF threw THEN [q EXCEPT !.error = TRUE, !.pc = "cleanup"]
    ELSE [q EXCEPT !.result.github_repo_url = url, !.pc = "deployFrontend"]
\* (mutation) the catch leaving githubRepoUrl as initialised
RepoCaught_Empty(q, url, threw) ==
    [q EXCEPT !.result.github_repo_url = IF threw THEN NULL ELSE url,
              !.pc = "deployFrontend"]

\* generateDemo 126-134: a throw of createGitHubRepo or initializeGitAndPush
\* is caught and githubRepoUrl becomes the placeholder.
RepoCaught(q, url, threw) ==
    [q EXCEPT !.result.github_repo_url = IF threw THEN PlaceholderRepoUrl ELSE url,
              !.pc = "deployFrontend"]

\* generateDemo 125-134
GenerateDemo_Repo(g) ==
    /\ GenAt(g, "repo")
    /\ \E c \in createGitHubRepo(gen[g].customerName, repos) :
         \E p \in IF c.threw THEN {[calls |-> <<>>, threw |-> TRUE, faults |-> 0]}
                  ELSE initializeGitAndPush(c.url) :
           /\ Budget(c.faults + p.faults)
           /\ faults' = faults + c.faults + p.faults
           /\ repos' = c.repos
           /\ gen' = [gen EXCEPT ![g] =
                 RepoCaught(Logged(Logged(gen[g], c), p), c.url, p.threw)]
    /\ UNCHANGED <<demos, projects, vercelToken, teamId, req, openaiKey, dirs, uuids, pageVars>>

\* frontendUrl = ... / backendUrl = ... of generateDemo 140-141
Deployed(q, role, url, next) ==
    IF role = "frontend"
    THEN [q EXCEPT !.result.frontend_url = url, !.pc = next]
    ELSE [q EXCEPT !.result.backend_url = url, !.pc = next]

\* One deployToVercel call of generateDemo 136-147.  deployToVercel catches
\* whatever it throws, so the catch at 142-147 is never entered.
DeployStage(g, pc, role, next) ==
    /\ GenAt(g, pc)
    /\ \E o \in deployToVercel(ProjName(Slug(gen[g].customerName), role),
                               projects, vercelToken, teamId) :
         /\ Budget(o.faults)
         /\ faults' = faults + o.faults
         /\ projects' = o.projects
         /\ gen' = [gen EXCEPT ![g] = Deployed(Logged(gen[g], o), role, o.url, next)]
    /\ UNCHANGED <<demos, repos, vercelToken, teamId, req, openaiKey, dirs, uuids, pageVars>>

\* generateDemo 140
GenerateDemo_DeployFrontend(g) == DeployStage(g, "deployFrontend", "frontend", "deployBackend")

\* generateDemo 141
GenerateDemo_DeployBackend(g) == DeployStage(g, "deployBackend", "backend", "cleanup")

\* (mutation) a failed rmSync thrown out of the finally block
Finally_Propagates(q, o) ==
    IF q.error \/ o.threw THEN [Logged(q, o) EXCEPT !.pc = "done", !.status = 500]
    ELSE [Logged(q, o) EXCEPT !.pc = "insert"]

\* generateDemo 158-165 and index.ts 106-112: after the finally block a run
\* that threw is answered 500 by the handler's catch; a run that returned goes
\* on to the insert.  A failed rmSync is only logged.
Finally(q, o) ==
    IF q.error THEN [Logged(q, o) EXCEPT !.pc = "done", !.status = 500]
    ELSE [Logged(q, o) EXCEPT !.pc = "insert"]

\* generateDemo 158-165
GenerateDemo_Cleanup(g) ==
    /\ GenAt(g, "cleanup")
    /\ \E o \in Attempts("fs.rm", FALSE) :
         /\ Budget(o.faults)
         /\ faults' = faults + o.faults
         /\ dirs' = IF o.threw THEN dirs ELSE dirs \ {gen[g].dir}
         /\ gen' = [gen EXCEPT ![g] = Finally(gen[g], o)]
    /\ UNCHANGED <<demos, projects, repos, vercelToken, teamId, req, openaiKey, uuids, pageVars>>

\* (mutation) the row written without its owner
InsertedRow_NoOwner(q) ==
    [frontend_url |-> q.result.frontend_url, backend_url |-> q.result.backend_url,
     github_repo_url |-> q.result.github_repo_url,
     user_id |-> NoId, customer_name |-> q.customerName]

\* index.ts 84-94: the columns of the row (the Segment keys and the logo are
\* copied from the request and not read by any handler).
InsertedRow(q) ==
    [frontend_url |-> q.result.frontend_url, backend_url |-> q.result.backend_url,
     github_repo_url |-> q.result.github_repo_url,
     user_id |-> q.userId, customer_name |-> q.customerName]

\* (mutation) if (dbError) throw dbError
Responded_Strict(q, o) ==
    IF o.threw THEN [Logged(q, o) EXCEPT !.pc = "done", !.status = 500]
    ELSE [Logged(q, o) EXCEPT !.pc = "done", !.status = 200, !.data = q.result,
                              !.row = RowIds[q.dir]]

\* index.ts 96-104: dbError is logged; res.json({ success: true, data: result })
Responded(q, o) ==
    [Logged(q, o) EXCEPT !.pc = "done", !.status = 200, !.data = q.result,
                         !.row = IF o.threw THEN NoId ELSE RowIds[q.dir]]

\* index.ts 81-104; the id of the new row is a fresh uuid of the store.
GenerateDemo_Insert(g) ==
    /\ GenAt(g, "insert")
    /\ \E o \in Attempts("db.insert", FALSE) :
         /\ Budget(o.faults)
         /\ faults' = faults + o.faults
         /\ demos' = IF o.threw THEN demos
                     ELSE [d \in DOMAIN demos \cup {RowIds[gen[g].dir]} |->
                             IF d \in DOMAIN demos THEN demos[d] ELSE InsertedRow(gen[g])]
         /\ gen' = [gen EXCEPT ![g] = Responded(gen[g], o)]
    /\ UNCHANGED <<projects, repos, vercelToken, teamId, req, openaiKey, dirs, uuids, pageVars>>

\* The server with an empty store and nothing at the providers, serving
\* /generate-demo: one request at a time in every environment, or two
\* requests in flight in the fully configured one.
InitProv ==
    /\ demos = [d \in {} |-> NoDemo]
    /\ projects = {}
    /\ repos = {}
    /\ req = [r \in {} |-> Idle]
    /\ \/ /\ \E e \in Envs : vercelToken = e[1] /\ teamId = e[2]
          /\ openaiKey \in BOOLEAN
          /\ gen = [g \in {"g1"} |-> GenIdle]
       \/ /\ vercelToken = TRUE /\ teamId = TRUE /\ openaiKey = TRUE
          /\ gen = [g \in GenSlots |-> GenIdle]
    /\ dirs = {}
    /\ uuids = 0
    /\ faults = 0
    /\ NoPage

NextProv ==
    \E g \in DOMAIN gen :
      \/ \E n \in Names \cup {NULL}, o \in BOOLEAN, u \in Users \cup {NoId} :
           GenerateDemo_Begin(g, n, o, u)
      \/ GenerateDemo_Frontend(g)
      \/ GenerateDemo_Backend(g)
      \/ GenerateDemo_Repo(g)
      \/ GenerateDemo_DeployFrontend(g)
      \/ GenerateDemo_DeployBackend(g)
      \/ GenerateDemo_Cleanup(g)
      \/ GenerateDemo_Insert(g)

SpecProv == InitProv /\ [][NextProv]_vars

\* ------------------------------------------------------------------------
\* The whole service, fully configured: a demo is provisioned and deletion
\* requests arrive for it, at the server or through the client's API route.
\* ------------------------------------------------------------------------
\* (mutation) the route without its githubToken check
ClientDeleteDemoData_Begin_IdOnly(r, demoId, token) ==
    BeginVia(r, "delete-demo-data", demoId, token, demoId # NoId, "client")

\* client route DELETE /api/delete-demo-data: 400 without demoId or
\* githubToken; otherwise the request is forwarded to the server's
\* /delete-demo-data and the server's answer is passed on.
ClientDeleteDemoData_Begin(r, demoId, token) ==
    BeginVia(r, "delete-demo-data", demoId, token, demoId # NoId /\ token, "client")

InitFull ==
    /\ demos = [d \in {} |-> NoDemo]
    /\ projects = {}
    /\ repos = {}
    /\ vercelToken = TRUE
    /\ teamId = TRUE
    /\ openaiKey = TRUE
    /\ req = [r \in {"r1"} |-> Idle]
    /\ gen = [g \in {"g1"} |-> GenIdle]
    /\ dirs = {}
    /\ uuids = 0
    /\ faults = 0
    /\ NoPage

NextFull ==
    \/ NextProv
    \/ Next
    \/ \E r \in DOMAIN req, d \in DemoIds \cup {NoId}, t \in BOOLEAN :
         ClientDeleteDemoData_Begin(r, d, t)

SpecFull == InitFull /\ [][NextFull]_vars

\* ------------------------------------------------------------------------
\* app.get('/test-vercel')
\* ------------------------------------------------------------------------
\* One listing request of /test-vercel: answered 2xx with the projects of
\* the scope, or not.
TestListing(op, projs, scope) ==
    { [calls |-> <<Call(op, NULL, NULL, TRUE)>>, ok |-> TRUE,
       list |-> Listing(projs, scope), faults |-> 0],
      [calls |-> <<Call(op, NULL, NULL, FALSE)>>, ok |-> FALSE,
       list |-> {}, faults |-> 1] }

\* (mutation) endpointUsed set before the answer of the listing is known
Listed_Eager(q, o, scope) ==
    [Logged(q, o) EXCEPT !.listed = IF o.ok THEN o.list ELSE q.listed,
                         !.endpointUsed = scope]

\* index.ts 365-369 and 387-391: a listing answered 2xx becomes the projects
\* of the answer and its scope the endpoint used.
Listed(q, o, scope) ==
    IF o.ok THEN [Logged(q, o) EXCEPT !.listed = o.list, !.endpointUsed = scope]
    ELSE Logged(q, o)

\* index.ts 402-411: res.json({ success, endpointUsed, projectCount, projects })
TestAnswer(q) == [Answer(q, 200) EXCEPT !.projectCount = Cardinality(q.listed)]

\* index.ts 337-377: the token check, then the team listing when
\* VERCEL_TEAM_ID is set.
TestVercel_Begin(r) ==
    /\ Free(r)
    /\ LET q == Fresh(r, "test-vercel", NoId, FALSE)
       IN  IF ~vercelToken
           THEN /\ req' = [req EXCEPT ![r] = Answer(q, 400)]
                /\ UNCHANGED faults
           ELSE IF ~teamId
           THEN /\ req' = [req EXCEPT ![r] = [q EXCEPT !.pc = "personal"]]
                /\ UNCHANGED faults
           ELSE \E o \in TestListing("vercel.list.team", projects, "team") :
                  /\ Budget(o.faults)
                  /\ faults' = faults + o.faults
                  /\ req' = [req EXCEPT ![r] =
                        IF Listed(q, o, "team").listed = {}
                        THEN [Listed(q, o, "team") EXCEPT !.pc = "personal"]
                        ELSE TestAnswer(Listed(q, o, "team"))]
    /\ UNCHANGED <<demos, projects, repos, vercelToken, teamId, provVars, pageVars>>

\* index.ts 379-411: the personal listing when no project was listed, then
\* the answer.
TestVercel_Personal(r) ==
    /\ At(r, "test-vercel", "personal")
    /\ \E o \in TestListing("vercel.list.personal", projects, "personal") :
         /\ Budget(o.faults)
         /\ faults' = faults + o.faults
         /\ req' = [req EXCEPT ![r] = TestAnswer(Listed(req[r], o, "personal"))]
    /\ UNCHANGED <<demos, projects, repos, vercelToken, teamId, provVars, pageVars>>

\* ------------------------------------------------------------------------
\* The deploy-host side of the server: /delete-vercel-deployments and
\* /test-vercel over the demos and projects that names of every documented
\* form give.
\* ------------------------------------------------------------------------
\* a generated name with the uniqueness suffix {timestamp}-{randomId}
Stamped(name) == name \o <<"-", "t1", "-", "k7">>

LookupNames == { <<"a">>, <<"a", " ", "b">>, <<"a", ".", "b">> }

\* the frontend project of a display name, as deployToVercel names it
FrontendOf(customerName) == cleanProjectName(ProjName(Slug(customerName), "frontend"))

\* The frontend URL a row can hold for a project name: the project's alias,
\* a deployment URL or placeholder, or the alias of a stamped name.
UrlForms(name) == { VercelUrl(name), VercelUrl(Suffixed(name)), VercelUrl(Stamped(name)) }

LookupPool == { FrontendOf(<<"a">>), Suffixed(FrontendOf(<<"a">>)),
                FrontendOf(<<"a", " ", "b">>) }

InitVercel ==
    /\ \E n \in LookupNames : \E u \in UrlForms(FrontendOf(n)) :
         demos = [d \in {"d1"} |->
                    [frontend_url |-> u, backend_url |-> NULL, github_repo_url |-> NULL,
                     user_id |-> "u1", customer_name |-> n]]
    /\ \E where \in [LookupPool -> Scopes \cup {"gone"}] :
         projects = { Proj(n, where[n]) : n \in {m \in LookupPool : where[m] # "gone"} }
    /\ repos = {}
    /\ \E e \in Envs : vercelToken = e[1] /\ teamId = e[2]
    /\ req = [r \in {"r1"} |-> Idle]
    /\ faults = 0
    /\ NoProvisioning
    /\ NoPage

NextVercel ==
    \E r \in DOMAIN req :
      \/ \E d \in {"d1", NoId} : DeleteVercelDeployments_Begin(r, d)
      \/ DeleteVercelDeployments_Vercel(r)
      \/ TestVercel_Begin(r)
      \/ TestVercel_Personal(r)

SpecVercel == InitVercel /\ [][NextVercel]_vars

\* ------------------------------------------------------------------------
\* The demo list of the dashboard (component DemoList).  Each of the three
\* handlers keeps one state value, the id of the demo whose button shows
\* "Deleting..."; a button is disabled when the value of its kind is the id
\* of its demo.  A handler awaits Promise.race of the request and a 30 s
\* timer; the request itself is not cancelled by the timer.
\* ------------------------------------------------------------------------
MaxPending == 3                       \* requests started and not yet ended
Kinds == {"delete-demo", "delete-vercel-deployments", "delete-demo-data"}
\* a request of the page: "racing" while its handler awaits the race,
\* "abandoned" once the timer has won and the request is still out
Items == [kind : Kinds, demoId : DemoIds, st : {"racing", "abandoned"}]
Item(kind, d, st) == [kind |-> kind, demoId |-> d, st |-> st]

RECURSIVE Sum(_, _)
Sum(f, S) == IF S = {} THEN 0
             ELSE LET x == CHOOSE y \in S : TRUE IN f[x] + Sum(f, S \ {x})
Started == Sum(pending, DOMAIN pending)

\* deletingDemo, deletingVercel or deletingData
Deleting(kind) ==
    IF kind = "delete-demo" THEN deletingDemo
    ELSE IF kind = "delete-vercel-deployments" THEN deletingVercel
    ELSE deletingData

\* setDeletingDemo(v), setDeletingVercel(v) or setDeletingData(v)
SetDeleting(kind, v) ==
    /\ deletingDemo' = IF kind = "delete-demo" THEN v ELSE deletingDemo
    /\ deletingVercel' = IF kind = "delete-vercel-deployments" THEN v ELSE deletingVercel
    /\ deletingData' = IF kind = "delete-demo-data" THEN v ELSE deletingData

\* disabled={deletingVercel === demo.id} and the like; the deployments button
\* is rendered only for a demo with a deployment URL.
Rendered(kind, d) ==
    /\ d \in DOMAIN demos
    /\ kind = "delete-vercel-deployments"
         => demos[d].frontend_url # NULL \/ demos[d].backend_url # NULL
Disabled(kind, d) == Deleting(kind) = d

ServerVars == <<demos, projects, repos, vercelToken, teamId, req, faults, provVars>>

\* A click on an enabled button, confirmed: the handler up to its await.
Clicked(kind, d) ==
    /\ Rendered(kind, d)
    /\ ~Disabled(kind, d)
    /\ Started < MaxPending
    /\ SetDeleting(kind, d)
    /\ pending' = [pending EXCEPT ![Item(kind, d, "racing")] = @ + 1]
    /\ UNCHANGED ServerVars

handleDelete(d) == Clicked("delete-demo", d)
handleDeleteVercelDeployments(d) == Clicked("delete-vercel-deployments", d)
handleDeleteDemoData(d) == Clicked("delete-demo-data", d)

\* The request ends before the timer, resolved or rejected: catch (alert)
\* and finally, which sets the state value of the kind to null.
RaceSettled(kind, d) ==
    /\ pending[Item(kind, d, "racing")] > 0
    /\ SetDeleting(kind, NoId)
    /\ pending' = [pending EXCEPT ![Item(kind, d, "racing")] = @ - 1]
    /\ UNCHANGED ServerVars

\* The 30 s timer rejects first: catch and finally as above, and the request
\* stays out.
RaceTimedOut(kind, d) ==
    /\ pending[Item(kind, d, "racing")] > 0
    /\ SetDeleting(kind, NoId)
    /\ pending' = [pending EXCEPT ![Item(kind, d, "racing")] = @ - 1,
                                  ![Item(kind, d, "abandoned")] = @ + 1]
    /\ UNCHANGED ServerVars

\* A request whose race was lost ends: nothing awaits it any more.
RequestEnds(kind, d) ==
    /\ pending[Item(kind, d, "abandoned")] > 0
    /\ pending' = [pending EXCEPT ![Item(kind, d, "abandoned")] = @ - 1]
    /\ UNCHANGED <<deletingDemo, deletingVercel, deletingData>>
    /\ UNCHANGED ServerVars

\* The page showing two demos, all three buttons rendered for each.
InitPage ==
    /\ demos = [d \in DemoIds |-> FullRow(IF d = "d1" THEN SlugA ELSE SlugAB)]
    /\ projects = {}
    /\ repos = {}
    /\ vercelToken = FALSE
    /\ teamId = FALSE
    /\ req = [r \in {} |-> Idle]
    /\ faults = 0
    /\ NoProvisioning
    /\ deletingDemo = NoId
    /\ deletingVercel = NoId
    /\ deletingData = NoId
    /\ pending = [it \in Items |-> 0]

NextPage ==
    \/ \E d \in DemoIds : handleDelete(d)
    \/ \E d \in DemoIds : handleDeleteVercelDeployments(d)
    \/ \E d \in DemoIds : handleDeleteDemoData(d)
    \/ \E kind \in Kinds, d \in DemoIds : RaceSettled(kind, d)
    \/ \E kind \in Kinds, d \in DemoIds : RaceTimedOut(kind, d)
    \/ \E kind \in Kinds, d \in DemoIds : RequestEnds(kind, d)

SpecPage == InitPage /\ [][NextPage]_vars

\* ------------------------------------------------------------------------
\* Vocabulary of the properties
\* ------------------------------------------------------------------------
R == DOMAIN req
Running(q) == q.pc \notin {"idle", "done"}
Finished(q) == q.pc = "done"
Ops(q) == {q.calls[i].op : i \in DOMAIN q.calls}
VercelDeleteOps == {"vercel.delete", "vercel.deleteByName"}
VercelOps == VercelDeleteOps \cup {"vercel.list.team", "vercel.list.personal"}
\* the stage of the combined operation a call belongs to
Rank(op) == IF op = "db.select" THEN 0
            ELSE IF op \in VercelOps THEN 1
            ELSE IF op = "github.delete" THEN 2
            ELSE 3
\* a call that makes deleteVercelProject throw
Throws(c) == c.op \in {"vercel.list.personal", "vercel.delete"} /\ ~c.ok
VercelThrew(q) == \E i \in DOMAIN q.calls : Throws(q.calls[i])
Failed(q, op) == \E i \in DOMAIN q.calls : q.calls[i].op = op /\ ~q.calls[i].ok
Succeeded(q, op) == \E i \in DOMAIN q.calls : q.calls[i].op = op /\ q.calls[i].ok
\* the calls of q made by deleteVercelProject(name)
CallsFor(q, name) == {i \in DOMAIN q.calls : q.calls[i].op \in VercelOps /\ q.calls[i].arg = name}
PastVercel(q) == q.pc \in {"github", "db", "done"} /\ "vercel" \in {StagesOf(q.kind)[i] : i \in 1..Len(StagesOf(q.kind))}
                 /\ q.lookup = "found"

\* ------------------------------------------------------------------------
\* C1: in /delete-demo every deploy-host call is issued before the code-host
\* repository deletion call, which is issued before the record-store delete
\* call; the record-store delete never precedes a provider deletion of the run.
\* ------------------------------------------------------------------------
C1_DeleteAllOrder ==
    \A r \in R :
      req[r].kind = "delete-demo" =>
        \A i, j \in DOMAIN req[r].calls :
          i < j => Rank(req[r].calls[i].op) <= Rank(req[r].calls[j].op)

C1_Witness ==
    \E r \in R :
      /\ req[r].kind = "delete-demo"
      /\ Finished(req[r])
      /\ {"vercel.delete", "github.delete", "db.delete"} \subseteq Ops(req[r])

\* ------------------------------------------------------------------------
\* C2: with a frontend URL and a backend URL in the record, a failed deletion
\* of the frontend project does not keep deleteVercelDeployments from
\* attempting the backend project.
\* ------------------------------------------------------------------------
C2_BackendStillAttempted ==
    \A r \in R :
      LET q == req[r]
          fe == extractProjectNameFromUrl(q.demo.frontend_url)
          be == extractProjectNameFromUrl(q.demo.backend_url)
      IN  ( /\ PastVercel(q)
            /\ fe # NULL /\ be # NULL
            /\ \E i \in CallsFor(q, fe) : Throws(q.calls[i]) )
          => CallsFor(q, be) # {}

C4_DataDeletedAfterRepoFailure ==
    \A r \in R :
      LET q == req[r] IN
      ( /\ q.kind = "delete-demo-data"
        /\ Finished(q)
        /\ Failed(q, "github.delete") )
      => /\ "db.delete" \in Ops(q)
         /\ Succeeded(q, "db.delete") => (q.status = 200 /\ q.demoId \notin DOMAIN demos)

C4_Witness ==
    \E r \in R :
      /\ req[r].kind = "delete-demo-data"
      /\ Finished(req[r])
      /\ req[r].token /\ req[r].demo.github_repo_url # NULL
      /\ Failed(req[r], "github.delete")
      /\ Succeeded(req[r], "db.delete")
      /\ req[r].status = 200
      /\ req[r].demoId \notin DOMAIN demos

\* ------------------------------------------------------------------------
\* C5: in /delete-demo a failure of the deployment deletion step is
\* swallowed: the repository deletion is still attempted, the record-store
\* delete is still issued, and the answer depends on the record-store delete
\* alone.
\* ------------------------------------------------------------------------
C5_VercelFailureSwallowed ==
    \A r \in R :
      LET q == req[r] IN
      ( /\ q.kind = "delete-demo"
        /\ Finished(q)
        /\ VercelThrew(q) )
      => /\ "db.delete" \in Ops(q)
         /\ parseGitHubRepoUrl(q.demo.github_repo_url) # NULL => "github.delete" \in Ops(q)
         /\ q.status = (IF Succeeded(q, "db.delete") THEN 200 ELSE 500)

C5_Witness ==
    \E r \in R :
      /\ req[r].kind = "delete-demo"
      /\ Finished(req[r])
      /\ VercelThrew(req[r])
      /\ "github.delete" \in Ops(req[r])
      /\ Succeeded(req[r], "db.delete")
      /\ req[r].status = 200

\* ------------------------------------------------------------------------
\* C6: in /delete-demo-data and /delete-demo, after a successful lookup the
\* answer is 500 exactly when the final record-store delete failed: that
\* delete is always reached and no other stage's failure fails the operation.
\* ------------------------------------------------------------------------
C6_OnlyDbDeleteIsFatal ==
    \A r \in R :
      LET q == req[r] IN
      ( /\ q.kind \in {"delete-demo-data", "delete-demo"}
        /\ Finished(q)
        /\ q.lookup = "found" )
      => /\ "db.delete" \in Ops(q)
         /\ q.status = (IF Failed(q, "db.delete") THEN 500 ELSE 200)

C6_Witness ==
    \E r \in R :
      /\ req[r].kind \in {"delete-demo-data", "delete-demo"}
      /\ Finished(req[r])
      /\ Failed(req[r], "db.delete")
      /\ req[r].status = 500
      /\ req[r].demoId \in DOMAIN demos

\* ------------------------------------------------------------------------
\* C7.  A repeated call: the slot's previous request was the same request and
\* was answered 200, no call of this run was made to fail, and no other
\* request ever ran.
\* ------------------------------------------------------------------------
Repeated(r) ==
    /\ Finished(req[r])
    /\ req[r].prev = 200
    /\ req[r].inj = 0
    /\ \A o \in R \ {r} : req[o].pc = "idle"

\* C7 (as stated): every deprovisioning operation called twice in succession
\* reports success both times.
C7_SecondCallSucceeds ==
    \A r \in R : Repeated(r) => req[r].status = 200

\* C7 (amended): /delete-vercel-deployments called twice in succession reports
\* success both times; /delete-demo-data and /delete-demo do not: the first
\* call removed the row, so the second is answered 404 and makes no provider
\* call and no record-store delete.
C7_SecondCall ==
    \A r \in R :
      Repeated(r) =>
        IF req[r].kind = "delete-vercel-deployments"
        THEN req[r].status = 200
        ELSE req[r].status = 404 /\ Ops(req[r]) = {"db.select"}

C7_Witness ==
    \E r \in R :
      /\ Repeated(r)
      /\ req[r].kind = "delete-demo"
      /\ req[r].status = 404
      /\ req[r].lookup = "absent"

\* ------------------------------------------------------------------------
\* C8: a second /delete-vercel-deployments call in succession whose lookups
\* match no project of the listing deletes no project and answers success.
\* ------------------------------------------------------------------------
C8_SecondVercelCallFindsNothing ==
    \A r \in R :
      LET q == req[r] IN
      ( /\ Finished(q)
        /\ q.kind = "delete-vercel-deployments"
        /\ q.prev = 200
        /\ q.lookup = "found"
        /\ "vercel.deleteByName" \in Ops(q)
        /\ "vercel.delete" \notin Ops(q)
        /\ ~VercelThrew(q) )
      => /\ q.status = 200
         /\ \A i \in DOMAIN q.calls : q.calls[i].op \in VercelDeleteOps => ~q.calls[i].ok

C8_Witness ==
    \E r \in R :
      LET q == req[r] IN
      /\ Finished(q)
      /\ q.kind = "delete-vercel-deployments"
      /\ q.prev = 200
      /\ "vercel.deleteByName" \in Ops(q)
      /\ "vercel.delete" \notin Ops(q)
      /\ \A p \in projects : p.name # extractProjectNameFromUrl(q.demo.frontend_url)
      /\ q.status = 200

\* ------------------------------------------------------------------------
\* C9: a failed lookup-by-id is answered 404 only when the row is absent; any
\* other record-store failure during the lookup is answered 500.
\* ------------------------------------------------------------------------
C9_LookupFailureStatus ==
    \A r \in R :
      /\ req[r].lookup = "absent" => req[r].status = 404
      /\ req[r].lookup = "error"  => req[r].status = 500

\* ------------------------------------------------------------------------
\* C10: for a demo id that is not in the record store every deletion
\* operation answers 404 and makes no deploy-host call, no code-host call and
\* no record-store delete.
\* ------------------------------------------------------------------------
C10_UnknownIdNoCalls ==
    \A r \in R :
      req[r].lookup = "absent" =>
        /\ Finished(req[r])
        /\ req[r].status = 404
        /\ Ops(req[r]) = {"db.select"}

C10_Witness ==
    \E r \in R :
      /\ req[r].kind = "delete-vercel-deployments"
      /\ req[r].lookup = "absent"
      /\ req[r].demoId \notin DOMAIN demos
      /\ req[r].status = 404

\* ------------------------------------------------------------------------
\* C11: a record with an absent result field stays deletable and causes no
\* call to the provider of that field: /delete-vercel-deployments on a record
\* with neither frontend nor backend URL answers success with no deploy-host
\* call, and /delete-demo-data on a record whose repository URL is null makes
\* no code-host call, still issues the record-store delete, and answers
\* success when that delete succeeds.
\* ------------------------------------------------------------------------
C11_AbsentFieldStillDeletable ==
    \A r \in R :
      LET q == req[r] IN
      (Finished(q) /\ q.lookup = "found") =>
        /\ ( /\ q.kind = "delete-vercel-deployments"
              /\ q.demo.frontend_url = NULL /\ q.demo.backend_url = NULL )
           => (q.status = 200 /\ Ops(q) = {"db.select"})
        /\ (q.kind = "delete-demo-data" /\ q.demo.github_repo_url = NULL)
           => /\ "github.delete" \notin Ops(q)
              /\ "db.delete" \in Ops(q)
              /\ Succeeded(q, "db.delete") => (q.status = 200 /\ q.demoId \notin DOMAIN demos)

C11_Witness ==
    \E r \in R :
      LET q == req[r] IN
      /\ Finished(q)
      /\ q.kind = "delete-demo-data"
      /\ q.token
      /\ q.lookup = "found"
      /\ q.demo.github_repo_url = NULL
      /\ q.demo.frontend_url # NULL
      /\ Succeeded(q, "db.delete")
      /\ q.status = 200

C11_WitnessDeployments ==
    \E r \in R :
      LET q == req[r] IN
      /\ Finished(q)
      /\ q.kind = "delete-vercel-deployments"
      /\ q.lookup = "found"
      /\ q.demo = NoDemo
      /\ vercelToken
      /\ q.status = 200

\* ------------------------------------------------------------------------
\* C18: the granular deletion operations touch only their own resources.
\* /delete-vercel-deployments issues no code-host call and no record-store
\* write, and its steps leave the table (the row and its URL fields) as it
\* was; /delete-demo-data issues no deploy-host call; no step changes a row in
\* place or adds one, and a row disappears only in the record-store delete step
\* of a /delete-demo-data or /delete-demo request for that row's id.
\* ------------------------------------------------------------------------
DataDeletionStepFor(d) ==
    \E r \in R :
      /\ req[r].kind \in {"delete-demo-data", "delete-demo"}
      /\ req[r].pc = "db"
      /\ req[r].demoId = d
      /\ req'[r].pc = "done"
      /\ Succeeded(req'[r], "db.delete")

C18_FrameStep ==
    /\ \A r \in R :
         /\ req'[r].kind = "delete-vercel-deployments"
            => /\ Ops(req'[r]) \subseteq {"db.select"} \cup VercelOps
               /\ req'[r] # req[r] => demos' = demos
         /\ req'[r].kind = "delete-demo-data"
            => Ops(req'[r]) \cap VercelOps = {}
    /\ DOMAIN demos' \subseteq DOMAIN demos
    /\ \A d \in DOMAIN demos :
         IF d \in DOMAIN demos' THEN demos'[d] = demos[d] ELSE DataDeletionStepFor(d)

C18_GranularFrame == [][C18_FrameStep]_vars

C18_Witness ==
    \E r \in R :
      LET q == req[r] IN
      /\ Finished(q)
      /\ q.kind = "delete-vercel-deployments"
      /\ Succeeded(q, "vercel.delete")
      /\ q.demoId \in DOMAIN demos
      /\ demos[q.demoId] = q.demo
      /\ q.demo.github_repo_url # NULL
      /\ parseGitHubRepoUrl(q.demo.github_repo_url) \in repos

\* ------------------------------------------------------------------------
\* Vocabulary of the provisioning properties
\* ------------------------------------------------------------------------
G == DOMAIN gen
Ran(q) == q.pc = "done" /\ q.status # 400
FrontendProject(q) == ProjName(Slug(q.customerName), "frontend")
BackendProject(q) == ProjName(Slug(q.customerName), "backend")
\* the calls of q that deploy the project named name
Deploys(q, name) ==
    {i \in DOMAIN q.calls : q.calls[i].op = "vercel.deploy"
                            /\ q.calls[i].arg = cleanProjectName(name)}
DeployOk(q, name) == \E i \in Deploys(q, name) : q.calls[i].ok
RepoStageFailed(q) == Failed(q, "github.create") \/ Failed(q, "git.push")
RepoStageOk(q) == Succeeded(q, "github.create") /\ Succeeded(q, "git.push")
PastDeploys(q) == q.pc \in {"cleanup", "insert", "done"} /\ ~q.error /\ q.status # 400
IsVercelUrl(url) == extractProjectNameFromUrl(url) # NULL
IsGitHubUrl(url) == parseGitHubRepoUrl(url) # NULL
FatalOps == {"fs.mkdir", "llm.frontend", "fs.write.frontend", "llm.backend", "fs.write.backend"}
ProviderOps == {"github.create", "git.push", "vercel.deploy"}

\* ------------------------------------------------------------------------
\* C12: a failure of the repository stage of a provisioning run (creation or
\* push) is caught: githubRepoUrl becomes the placeholder, both deployToVercel
\* calls are still made, and the request is answered with success.
\* ------------------------------------------------------------------------
C12_RepoFailureCaught ==
    \A g \in G :
      LET q == gen[g] IN
      RepoStageFailed(q) =>
        /\ ~q.error
        /\ q.result.github_repo_url = PlaceholderRepoUrl
        /\ PastDeploys(q) =>
             /\ q.result.frontend_url # NULL /\ q.result.backend_url # NULL
             /\ vercelToken => /\ Deploys(q, FrontendProject(q)) # {}
                               /\ Deploys(q, BackendProject(q)) # {}
        /\ q.pc = "done" => (q.status = 200 /\ q.data.github_repo_url = PlaceholderRepoUrl)

C12_Witness ==
    \E g \in G :
      LET q == gen[g] IN
      /\ q.pc = "done"
      /\ Succeeded(q, "github.create")
      /\ Failed(q, "git.push")
      /\ DeployOk(q, FrontendProject(q))
      /\ DeployOk(q, BackendProject(q))
      /\ q.status = 200

\* ------------------------------------------------------------------------
\* C13: a deploy stage that fails (no VERCEL_TOKEN, the deploy command exiting
\* non-zero, or no URL in its output) yields a placeholder URL for its
\* project; the finished run is answered with success and two URL strings
\* even when both deploys failed.
\* ------------------------------------------------------------------------
C13_DeployFailureGivesPlaceholder ==
    \A g \in G :
      LET q == gen[g] IN
      /\ ( /\ q.pc \in {"deployBackend", "cleanup", "insert", "done"}
           /\ ~q.error /\ q.status # 400
           /\ ~DeployOk(q, FrontendProject(q)) )
         => q.result.frontend_url = PlaceholderUrl(FrontendProject(q))
      /\ (PastDeploys(q) /\ ~DeployOk(q, BackendProject(q)))
         => q.result.backend_url = PlaceholderUrl(BackendProject(q))
      /\ (q.pc = "done" /\ ~q.error /\ q.status # 400)
         => /\ q.status = 200
            /\ IsVercelUrl(q.data.frontend_url)
            /\ IsVercelUrl(q.data.backend_url)

C13_Witness ==
    \E g \in G :
      LET q == gen[g] IN
      /\ q.pc = "done"
      /\ vercelToken
      /\ \E i \in Deploys(q, FrontendProject(q)) : ~q.calls[i].ok /\ q.calls[i].tgt = NULL
      /\ \E i \in Deploys(q, BackendProject(q)) : ~q.calls[i].ok /\ q.calls[i].tgt # NULL
      /\ q.status = 200
      /\ q.data.frontend_url = PlaceholderUrl(FrontendProject(q))
      /\ q.data.backend_url = PlaceholderUrl(BackendProject(q))

C13_WitnessNoToken ==
    \E g \in G :
      LET q == gen[g] IN
      /\ q.pc = "done"
      /\ ~vercelToken
      /\ q.status = 200
      /\ "vercel.deploy" \notin Ops(q)
      /\ q.data.frontend_url = PlaceholderUrl(FrontendProject(q))
      /\ q.data.backend_url = PlaceholderUrl(BackendProject(q))

\* ------------------------------------------------------------------------
\* C14: when a code-generation request (also for want of OPENAI_API_KEY) or
\* the writing of the local files fails, the run aborts: the request is
\* answered 500, and no repository is created, no deploy is attempted and no
\* row is inserted for it.
\* ------------------------------------------------------------------------
C14_FatalStagesAbort ==
    \A g \in G :
      LET q == gen[g] IN
      (\E op \in FatalOps : Failed(q, op)) =>
        /\ q.error
        /\ Ops(q) \cap (ProviderOps \cup {"db.insert"}) = {}
        /\ q.result = NoDemo
        /\ q.row = NoId
        /\ q.pc \in {"cleanup", "done"}
        /\ q.pc = "done" => q.status = 500

C14_Witness ==
    \E g \in G :
      LET q == gen[g] IN
      /\ q.pc = "done"
      /\ openaiKey
      /\ Succeeded(q, "llm.backend")
      /\ Failed(q, "fs.write.backend")
      /\ q.status = 500
      /\ repos = {} /\ projects = {} /\ DOMAIN demos = {}

C14_WitnessNoKey ==
    \E g \in G :
      LET q == gen[g] IN
      /\ q.pc = "done"
      /\ ~openaiKey
      /\ Failed(q, "llm.frontend")
      /\ q.status = 500

\* ------------------------------------------------------------------------
\* C15: on every exit path of generateDemo (return, or a throw of any fatal
\* stage) the removal of the run's directory is attempted exactly once, as
\* the last step of the run, and not before; a failed removal changes neither
\* the result nor the error: the answer is 500 exactly when the run threw,
\* and otherwise carries the result of the run.
\* ------------------------------------------------------------------------
Removals(q) == {i \in DOMAIN q.calls : q.calls[i].op = "fs.rm"}

C15_CleanupAtEveryExit ==
    \A g \in G :
      LET q == gen[g] IN
      /\ q.pc \in {"insert", "done"} /\ q.status # 400
         => /\ Cardinality(Removals(q)) = 1
            /\ \A i \in Removals(q), j \in DOMAIN q.calls :
                 /\ j < i => q.calls[j].op \in FatalOps \cup ProviderOps
                 /\ j > i => q.calls[j].op = "db.insert"
      /\ q.pc \notin {"insert", "done"} => Removals(q) = {}
      /\ Ran(q) => /\ q.status = IF q.error THEN 500 ELSE 200
                   /\ q.status = 200 => q.data = q.result

C15_Witness ==
    \E g \in G :
      LET q == gen[g] IN
      /\ q.pc = "done"
      /\ Failed(q, "fs.rm")
      /\ q.dir \in dirs
      /\ q.status = 200
      /\ q.data = q.result
      /\ IsGitHubUrl(q.data.github_repo_url)

C15_WitnessAbort ==
    \E g \in G :
      LET q == gen[g] IN
      /\ q.pc = "done"
      /\ Failed(q, "llm.backend")
      /\ Succeeded(q, "fs.rm")
      /\ q.dir \notin dirs
      /\ q.status = 500

\* ------------------------------------------------------------------------
\* C16: when generateDemo returned and the insert of the row fails, the
\* failure is only logged: the answer is success with the three generated
\* URLs, and no row was written.
\* ------------------------------------------------------------------------
C16_InsertFailureLogged ==
    \A g \in G :
      LET q == gen[g] IN
      Failed(q, "db.insert") =>
        /\ q.pc = "done"
        /\ q.status = 200
        /\ q.data = q.result
        /\ IsVercelUrl(q.data.frontend_url)
        /\ IsVercelUrl(q.data.backend_url)
        /\ IsGitHubUrl(q.data.github_repo_url)
        /\ q.row = NoId

C16_Witness ==
    \E g \in G :
      LET q == gen[g] IN
      /\ q.pc = "done"
      /\ Failed(q, "db.insert")
      /\ RepoStageOk(q)
      /\ q.status = 200
      /\ DOMAIN demos = {}

\* ------------------------------------------------------------------------
\* C17: a /generate-demo request whose run completes issues exactly one
\* insert, after every generation and provider call of the run; when the store
\* accepts it the new row carries the three URLs returned to the caller and
\* the owner id of the request, and the table holds one row per accepted
\* insert.  A run that threw and a rejected request insert nothing.
\* ------------------------------------------------------------------------
Inserts(q) == {i \in DOMAIN q.calls : q.calls[i].op = "db.insert"}

C17_OneRowPerRun ==
    /\ \A g \in G :
         LET q == gen[g] IN
         /\ (q.pc = "done" /\ q.status = 200)
            => /\ Cardinality(Inserts(q)) = 1
               /\ Inserts(q) = {Len(q.calls)}
               /\ Succeeded(q, "db.insert")
                  => /\ q.row \in DOMAIN demos
                     /\ demos[q.row].frontend_url = q.data.frontend_url
                     /\ demos[q.row].backend_url = q.data.backend_url
                     /\ demos[q.row].github_repo_url = q.data.github_repo_url
                     /\ demos[q.row].user_id = q.userId
                     /\ demos[q.row].customer_name = q.customerName
         /\ ~(q.pc = "done" /\ q.status = 200) => (Inserts(q) = {} /\ q.row = NoId)
    /\ \A g, h \in G : (g # h /\ gen[g].row # NoId) => gen[g].row # gen[h].row
    /\ DOMAIN demos = {gen[g].row : g \in {h \in G : Succeeded(gen[h], "db.insert")}}

C17_Witness ==
    \E g, h \in G :
      /\ g # h
      /\ gen[g].pc = "done" /\ gen[h].pc = "done"
      /\ Succeeded(gen[g], "db.insert") /\ Succeeded(gen[h], "db.insert")
      /\ gen[g].userId # gen[h].userId
      /\ Cardinality(DOMAIN demos) = 2
      /\ demos[gen[g].row].user_id = gen[g].userId
      /\ demos[gen[h].row].user_id = gen[h].userId

\* ------------------------------------------------------------------------
\* C19 (as stated): in every row written by provisioning a result field is
\* present only if its provisioning step succeeded; the field of a failed
\* step is absent.
\* ------------------------------------------------------------------------
Persisted(q) == q.row # NoId /\ q.row \in DOMAIN demos

C19_AbsentWhenFailed ==
    \A g \in G :
      LET q == gen[g] IN
      Persisted(q) =>
        /\ demos[q.row].github_repo_url # NULL => RepoStageOk(q)
        /\ demos[q.row].frontend_url # NULL => DeployOk(q, FrontendProject(q))
        /\ demos[q.row].backend_url # NULL => DeployOk(q, BackendProject(q))

\* C19 (amended): in every row written by provisioning the three result
\* fields are all present and of the provider's URL shape; the field of a
\* step that succeeded holds the URL the provider returned, the field of a
\* step that failed holds the placeholder of that step, never nothing.
C19_PlaceholderWhenFailed ==
    \A g \in G :
      LET q == gen[g]
          row == demos[q.row]
      IN  Persisted(q) =>
            /\ IsGitHubUrl(row.github_repo_url)
            /\ IsVercelUrl(row.frontend_url)
            /\ IsVercelUrl(row.backend_url)
            /\ row.github_repo_url =
                 IF RepoStageOk(q) THEN GitHubUrl(Owner, RepoName(Slug(q.customerName)))
                 ELSE PlaceholderRepoUrl
            /\ IF DeployOk(q, FrontendProject(q))
               THEN extractProjectNameFromUrl(row.frontend_url) \in
                      {FrontendProject(q), Suffixed(FrontendProject(q))}
               ELSE row.frontend_url = PlaceholderUrl(FrontendProject(q))
            /\ IF DeployOk(q, BackendProject(q))
               THEN extractProjectNameFromUrl(row.backend_url) \in
                      {BackendProject(q), Suffixed(BackendProject(q))}
               ELSE row.backend_url = PlaceholderUrl(BackendProject(q))

C19_Witness ==
    \E g \in G :
      LET q == gen[g] IN
      /\ Persisted(q)
      /\ Failed(q, "github.create")
      /\ ~DeployOk(q, FrontendProject(q))
      /\ DeployOk(q, BackendProject(q))
      /\ demos[q.row].github_repo_url = PlaceholderRepoUrl
      /\ demos[q.row].frontend_url = PlaceholderUrl(FrontendProject(q))
      /\ demos[q.row].backend_url = VercelUrl(BackendProject(q))

\* ------------------------------------------------------------------------
\* C20: two provisioning runs for the same display name, concurrent or one
\* after the other, never use the same resource name: the repository name and
\* the project names one run asks its providers for differ from those of the
\* other run.
\* ------------------------------------------------------------------------
ResourceNames(q) ==
    {q.calls[i].arg : i \in {j \in DOMAIN q.calls : q.calls[j].op \in {"github.create", "vercel.deploy"}}}

C20_NamesNeverReused ==
    \A g, h \in G :
      (g # h /\ gen[g].customerName # NULL /\ gen[g].customerName = gen[h].customerName)
      => ResourceNames(gen[g]) \cap ResourceNames(gen[h]) = {}

C22_CredentialRequired ==
    \A r \in R :
      LET q == req[r] IN
      (q.kind = "delete-demo-data" /\ Finished(q) /\ ~q.token)
      => (q.status = 400 /\ ~Succeeded(q, "db.delete"))

\* C22 (amended): only the client's API route requires the code-host
\* credential: without it the route answers 400 and nothing reaches the
\* server.  The server's /delete-demo-data requires the demo id alone: without
\* the credential it skips the repository deletion, still issues the
\* record-store delete, and answers success when that delete succeeds.
C22_OnlyClientRouteRequiresCredential ==
    \A r \in R :
      LET q == req[r] IN
      (q.kind = "delete-demo-data" /\ Finished(q) /\ ~q.token) =>
        /\ q.route = "client" => (q.status = 400 /\ q.calls = <<>>)
        /\ (q.route = "server" /\ q.lookup = "found")
           => /\ "github.delete" \notin Ops(q)
              /\ "db.delete" \in Ops(q)
              /\ Succeeded(q, "db.delete") => (q.status = 200 /\ q.demoId \notin DOMAIN demos)

C22_Witness ==
    \E r \in R, g \in G :
      /\ req[r].kind = "delete-demo-data"
      /\ req[r].route = "client"
      /\ ~req[r].token
      /\ req[r].demoId = gen[g].row
      /\ req[r].status = 400
      /\ gen[g].row \in DOMAIN demos
      /\ parseGitHubRepoUrl(demos[gen[g].row].github_repo_url) \in repos

C22_WitnessServer ==
    \E r \in R, g \in G :
      /\ req[r].kind = "delete-demo-data"
      /\ req[r].route = "server"
      /\ ~req[r].token
      /\ req[r].demoId = gen[g].row
      /\ req[r].status = 200
      /\ gen[g].row \notin DOMAIN demos
      /\ parseGitHubRepoUrl(gen[g].data.github_repo_url) \in repos

\* ------------------------------------------------------------------------
\* C23: /test-vercel never mutates state: its steps leave the deploy host,
\* the code host and the table as they were and its calls are listing
\* requests only; the scope its answer reports in endpointUsed is one whose
\* listing request succeeded, and projectCount counts the projects of that
\* scope's listing (no scope reported: no project counted).
\* ------------------------------------------------------------------------
ListOpOf(scope) == IF scope = "team" THEN "vercel.list.team" ELSE "vercel.list.personal"

C23_TestStep ==
    \A r \in R :
      LET q == req'[r] IN
      q.kind = "test-vercel" =>
        /\ Ops(q) \subseteq {"vercel.list.team", "vercel.list.personal"}
        /\ q # req[r] => (projects' = projects /\ repos' = repos /\ demos' = demos)
        /\ (Finished(q) /\ ~Finished(req[r]) /\ q.status = 200)
           => /\ q.projectCount = Cardinality(q.listed)
              /\ IF q.endpointUsed = ""
                 THEN q.listed = {} /\ ~Succeeded(q, "vercel.list.team")
                                    /\ ~Succeeded(q, "vercel.list.personal")
                 ELSE /\ Succeeded(q, ListOpOf(q.endpointUsed))
                      /\ q.listed = Listing(projects, q.endpointUsed)

C23_TestNeverMutates == [][C23_TestStep]_vars

C23_Witness ==
    \E r \in R :
      LET q == req[r] IN
      /\ q.kind = "test-vercel"
      /\ Finished(q)
      /\ teamId
      /\ Succeeded(q, "vercel.list.team")
      /\ q.endpointUsed = "personal"
      /\ q.projectCount = 2
      /\ Listing(projects, "team") = {}

NewCalls(r) == SubSeq(req'[r].calls, Len(req[r].calls) + 1, Len(req'[r].calls))
OpsIn(cs) == {cs[i].op : i \in DOMAIN cs}
FailedIn(cs, op) == \E i \in DOMAIN cs : cs[i].op = op /\ ~cs[i].ok

C25_ListingStep ==
    \A r \in DOMAIN req :
      (At(r, "delete-vercel-deployments", "vercel") /\ req'[r].pc = "done"
       /\ Len(req'[r].calls) > Len(req[r].calls))
      => LET cs == NewCalls(r) IN
         /\ cs[1].op = IF teamId THEN "vercel.list.team" ELSE "vercel.list.personal"
         /\ \A i \in DOMAIN cs : cs[i].op = "vercel.list.team" => i = 1 /\ teamId
         /\ \A i \in DOMAIN cs : cs[i].op = "vercel.list.personal" => i = IF teamId THEN 2 ELSE 1
         /\ "vercel.list.personal" \in OpsIn(cs)
              <=> \/ ~teamId
                  \/ FailedIn(cs, "vercel.list.team")
                  \/ Listing(projects, "team") = {}
         /\ FailedIn(cs, "vercel.list.personal")
              => /\ req'[r].status = 500
                 /\ projects' = projects
                 /\ OpsIn(cs) \subseteq {"vercel.list.team", "vercel.list.personal"}

C25_TeamFirstThenPersonal == [][C25_ListingStep]_vars

C25_Witness ==
    \E r \in DOMAIN req :
      LET q == req[r] IN
      /\ q.kind = "delete-vercel-deployments"
      /\ Finished(q)
      /\ teamId
      /\ Len(q.calls) = 3
      /\ q.calls[2] = Call("vercel.list.team", q.calls[2].arg, NULL, TRUE)
      /\ q.calls[3] = Call("vercel.list.personal", q.calls[2].arg, NULL, FALSE)
      /\ q.status = 500


\* ------------------------------------------------------------------------
\* C26: the lookup passes are tried in order and the first match wins: when
\* the listing in use holds an entry named exactly as the target, that entry
\* is the one the delete is addressed to and the one removed, whatever else
\* in the listing matches more loosely.
\* ------------------------------------------------------------------------
ScopeUsed(cs) == IF "vercel.list.personal" \in OpsIn(cs) THEN "personal" ELSE "team"

C26_LookupStep ==
    \A r \in DOMAIN req :
      (At(r, "delete-vercel-deployments", "vercel") /\ req'[r].pc = "done"
       /\ Len(req'[r].calls) > Len(req[r].calls))
      => LET cs    == NewCalls(r)
             last  == cs[Len(cs)]
             list  == Listing(projects, ScopeUsed(cs))
             exact == {p \in list : p.name = last.arg}
         IN  (last.op \notin {"vercel.list.team", "vercel.list.personal"} /\ exact # {})
             => /\ last.op = "vercel.delete"
                /\ last.tgt = last.arg
                /\ projects' = IF last.ok THEN projects \ exact ELSE projects

C26_ExactMatchWins == [][C26_LookupStep]_vars

\* An exact match was deleted while a looser match stood in the same listing.
C26_Witness ==
    \E r \in DOMAIN req :
      LET q    == req[r]
          last == q.calls[Len(q.calls)]
      IN  /\ q.kind = "delete-vercel-deployments"
          /\ Finished(q)
          /\ q.calls # <<>>
          /\ last.op = "vercel.delete"
          /\ last.ok
          /\ last.tgt = last.arg
          /\ \E p \in projects :
               /\ p.scope = ScopeUsed(q.calls)
               /\ p.name # last.arg
               /\ includes(p.name, last.arg) \/ includes(last.arg, p.name)


\* ------------------------------------------------------------------------
\* C27 (as stated): the string of the third lookup pass is the display-name
\* slug: for a project name segment-demo-{slug}-{role}-{timestamp}-{random}
\* taken from a stored URL, split('-').slice(2, -2).join('-') is {slug}.
\* ------------------------------------------------------------------------
C27_HeuristicYieldsSlug ==
    \A d \in DOMAIN demos :
      LET n    == demos[d].customer_name
          name == extractProjectNameFromUrl(demos[d].frontend_url)
      IN  (n # NULL /\ name # NULL /\ name = Stamped(FrontendOf(n)))
          => customerNameOf(name) = Slug(n)


\* ------------------------------------------------------------------------
\* C28: when none of the three passes finds a project in the listing in use,
\* exactly one delete addressed by the literal target name is sent, no
\* id-addressed delete is, and the deletion completes without error whether
\* that delete is answered 2xx or not: the request is answered 200.  The
\* name-addressed delete is sent in no other case.
\* ------------------------------------------------------------------------
C28_LastResortStep ==
    \A r \in DOMAIN req :
      (At(r, "delete-vercel-deployments", "vercel") /\ req'[r].pc = "done"
       /\ Len(req'[r].calls) > Len(req[r].calls))
      => LET cs      == NewCalls(r)
             target  == cs[1].arg
             list    == Listing(projects, ScopeUsed(cs))
             byNames == {i \in DOMAIN cs : cs[i].op = "vercel.deleteByName"}
         IN  IF ~FailedIn(cs, "vercel.list.personal") /\ Found(list, target) = {}
             THEN /\ Cardinality(byNames) = 1
                  /\ \A i \in byNames : i = Len(cs) /\ cs[i].arg = target /\ cs[i].tgt = target
                  /\ "vercel.delete" \notin OpsIn(cs)
                  /\ req'[r].status = 200
             ELSE byNames = {}

C29_UrlRoundTrip ==
    \A d \in DOMAIN demos :
      LET n == demos[d].customer_name IN
      (n # NULL /\ demos[d].frontend_url = VercelUrl(FrontendOf(n)))
      => extractProjectNameFromUrl(demos[d].frontend_url) = FrontendOf(n)


\* ------------------------------------------------------------------------
\* C30 (as stated): a deletion for a demo deletes only the deploy-host
\* projects of that demo: every project that /delete-vercel-deployments or
\* /delete-demo deleted is named as the project name extracted from the
\* frontend or the backend URL of the row.
\* ------------------------------------------------------------------------
C30_OnlyOwnProjectsDeleted ==
    \A r \in DOMAIN req :
      LET q == req[r] IN
      q.kind \in {"delete-vercel-deployments", "delete-demo"}
      => \A i \in DOMAIN q.calls :
           (q.calls[i].op = "vercel.delete" /\ q.calls[i].ok)
           => q.calls[i].tgt \in { extractProjectNameFromUrl(q.demo.frontend_url),
                                   extractProjectNameFromUrl(q.demo.backend_url) }


\* ------------------------------------------------------------------------
\* C31 (as stated): when a project named as the target is in a listing the
\* deletion can obtain (the personal one, or the team one when a team id is
\* configured) and no deploy-host call of the deletion is made to fail, the deletion finds a project of that name and
\* removes it; a team listing that holds other projects does not hide a
\* project of the personal scope.
\* ------------------------------------------------------------------------
C31_VisibleStep ==
    \A r \in DOMAIN req :
      (At(r, "delete-vercel-deployments", "vercel") /\ req'[r].pc = "done"
       /\ Len(req'[r].calls) > Len(req[r].calls)
       /\ faults' = faults)
      => LET target  == NewCalls(r)[1].arg
             visible == Listing(projects, "personal")
                        \cup (IF teamId THEN Listing(projects, "team") ELSE {})
         IN  (\E p \in visible : p.name = target)
             => \E p \in visible : p.name = target /\ p \notin projects'

C31_VisibleProjectDeleted == [][C31_VisibleStep]_vars


\* ------------------------------------------------------------------------
\* C32 (as stated): when /delete-vercel-deployments answers success for a
\* row with a deployment URL, no project named as the name extracted from
\* the row's frontend or backend URL is left on the deploy host.
\* ------------------------------------------------------------------------
C32_SuccessMeansGone ==
    \A r \in DOMAIN req :
      LET q == req[r] IN
      (/\ q.kind = "delete-vercel-deployments"
       /\ Finished(q)
       /\ q.status = 200
       /\ q.demo.frontend_url # NULL \/ q.demo.backend_url # NULL)
      => \A p \in projects :
           p.name \notin { extractProjectNameFromUrl(q.demo.frontend_url),
                           extractProjectNameFromUrl(q.demo.backend_url) }


\* ------------------------------------------------------------------------
\* C33 (as stated): every repository a provisioning run creates on the code
\* host is the one its result's repository URL names; no run created a
\* repository and returned the placeholder.
\* ------------------------------------------------------------------------
C33_CreatedRepoReferenced ==
    \A g \in G :
      LET q == gen[g] IN
      (PastDeploys(q) /\ Succeeded(q, "github.create"))
      => /\ q.result.github_repo_url = GitHubUrl(Owner, RepoName(Slug(q.customerName)))
         /\ Persisted(q) => demos[q.row].github_repo_url = q.result.github_repo_url


\* ------------------------------------------------------------------------
\* C34 (as stated): deprovisioning sends no provider delete for a resource
\* provisioning did not create: for a row whose stored URLs are placeholders
\* of failed stages, no deletion handler sends a repository delete, and none
\* sends a project delete for the name taken from a placeholder URL.
\* ------------------------------------------------------------------------
DeleteOps == {"vercel.delete", "vercel.deleteByName"}

C34_NoDeleteForPlaceholders ==
    \A r \in DOMAIN req : \A g \in G :
      LET q   == req[r]
          run == gen[g]
      IN  (q.lookup = "found" /\ run.row = q.demoId)
          => /\ q.demo.github_repo_url = PlaceholderRepoUrl
                  => "github.delete" \notin Ops(q)
             /\ ~DeployOk(run, FrontendProject(run))
                  => \A i \in CallsFor(q, extractProjectNameFromUrl(q.demo.frontend_url)) :
                       q.calls[i].op \notin DeleteOps
             /\ ~DeployOk(run, BackendProject(run))
                  => \A i \in CallsFor(q, extractProjectNameFromUrl(q.demo.backend_url)) :
                       q.calls[i].op \notin DeleteOps


\* ------------------------------------------------------------------------
\* C35: every delete request of deleteVercelProject, by id or by name, goes
\* to the endpoint of the listing the lookup ran over: to the team endpoint
\* only when the team listing was answered and the personal one was not
\* requested, to the personal endpoint otherwise; and a project removed was
\* in the scope the delete was sent to.
\* ------------------------------------------------------------------------
C35_DeleteInListingScope ==
    \A r \in DOMAIN req :
      LET q == req[r] IN
      q.kind = "delete-vercel-deployments"
      => \A i \in DOMAIN q.calls :
           q.calls[i].op \in DeleteOps
           => /\ q.calls[i].scope = ScopeUsed(q.calls)
              /\ q.calls[i].scope = "team"
                   => teamId /\ Succeeded(q, "vercel.list.team")
              /\ q.calls[i].scope = "personal"
                   => Succeeded(q, "vercel.list.personal")
              /\ \A p \in projects :
                   (p.name = q.calls[i].tgt /\ p.scope = q.calls[i].scope)
                   => ~q.calls[i].ok

\* A delete sent to the personal endpoint after an empty team listing, and
\* one sent to the team endpoint.
C35_Witness ==
    \E r \in DOMAIN req :
      LET q == req[r] IN
      /\ q.kind = "delete-vercel-deployments"
      /\ Finished(q)
      /\ Succeeded(q, "vercel.list.team")
      /\ Succeeded(q, "vercel.list.personal")
      /\ \E i \in DOMAIN q.calls :
           /\ q.calls[i].op = "vercel.delete"
           /\ q.calls[i].ok
           /\ q.calls[i].scope = "personal"


\* ------------------------------------------------------------------------
\* C36 (as stated): while a deletion request of a kind for a demo is in
\* flight and its handler still awaits it, the button of that kind of that
\* demo is disabled, whatever is clicked for other demos and however other
\* requests end or time out; so no two requests of one kind for one demo are
\* awaited at once.
\* ------------------------------------------------------------------------
C36_DisabledWhileInFlight ==
    \A kind \in Kinds : \A d \in DemoIds :
      pending[Item(kind, d, "racing")] > 0
      => /\ Disabled(kind, d)
         /\ pending[Item(kind, d, "racing")] = 1

====
